---- MODULE Spec2Model ----
(***************************************************************************)
(* Model of the make-backing command of src/app.py (DrumTrainer): the stem *)
(* mixdown, the beat grid, the click overlay, the loudness normalisation   *)
(* and the export of backing.wav / backing.mp3.                            *)
(*                                                                         *)
(* Python floats are IEEE binary64.  They are modelled exactly: a float is *)
(* a record [neg, m, e] whose 53-bit mantissa m is a natural number kept   *)
(* as a sequence of base-1024 limbs (least significant first) and whose    *)
(* value is m * 2^e; zero has m = << >>.                                   *)
(* Every arithmetic result is rounded to nearest, ties to even, as the     *)
(* hardware does.                                                          *)
(***************************************************************************)
EXTENDS Integers, Sequences, FiniteSets, TLC

(***************************************************************************)
(* Natural numbers of any size: sequences of limbs, least significant      *)
(* first, without high zero limbs.                                         *)
(***************************************************************************)
MantBits == 53

LimbBits == 10

LimbBase == 2 ^ LimbBits

MinOf(S) == CHOOSE x \in S : \A y \in S : x <= y

MaxOf(S) == CHOOSE x \in S : \A y \in S : x >= y

\* the index of the highest non-zero limb (0 when there is none)
TopLimb(a) == MaxOf({0} \cup {i \in 1..Len(a) : a[i] # 0})

NatNorm(a) == SubSeq(a, 1, TopLimb(a))

RECURSIVE IntToNat(_)
IntToNat(v) ==
  IF v = 0 THEN << >> ELSE <<v % LimbBase>> \o IntToNat(v \div LimbBase)

RECURSIVE NatToInt(_)
NatToInt(a) ==
  IF a = << >> THEN 0 ELSE a[1] + LimbBase * NatToInt(Tail(a))

Limb(a, i) == IF i >= 1 /\ i <= Len(a) THEN a[i] ELSE 0

NatAdd(a, b) ==
  LET n == IF Len(a) >= Len(b) THEN Len(a) ELSE Len(b)
      c[i \in 0..n] ==
        IF i = 0 THEN 0 ELSE (Limb(a, i) + Limb(b, i) + c[i - 1]) \div LimbBase
  IN  NatNorm([i \in 1..(n + 1) |->
                 IF i = n + 1 THEN c[n]
                 ELSE (Limb(a, i) + Limb(b, i) + c[i - 1]) % LimbBase])

\* a * k for a natural k below 2^21
NatMulSmall(a, k) ==
  LET n == Len(a)
      c[i \in 0..n] ==
        IF i = 0 THEN 0 ELSE (a[i] * k + c[i - 1]) \div LimbBase
  IN  NatNorm([i \in 1..n |-> (a[i] * k + c[i - 1]) % LimbBase] \o IntToNat(c[n]))

\* a * 2^s
NatShl(a, s) ==
  IF a = << >> THEN << >>
  ELSE [i \in 1..(s \div LimbBits) |-> 0] \o NatMulSmall(a, 2 ^ (s % LimbBits))

\* a \div 2^s, and whether a non-zero remainder was dropped
NatShr(a, s) ==
  LET drop == s \div LimbBits
      bit  == s % LimbBits
      rest == IF drop >= Len(a) THEN << >> ELSE SubSeq(a, drop + 1, Len(a))
      low  == \E i \in 1..Len(a) : i <= drop /\ a[i] # 0
      p    == 2 ^ bit
  IN  [q |-> NatNorm([i \in 1..Len(rest) |->
                        (rest[i] \div p) + (Limb(rest, i + 1) % p) * (LimbBase \div p)]),
       sticky |-> low \/ (rest # << >> /\ rest[1] % p # 0)]

RECURSIVE IntBitLen(_)
IntBitLen(v) == IF v = 0 THEN 0 ELSE 1 + IntBitLen(v \div 2)

NatBitLen(a) ==
  IF a = << >> THEN 0 ELSE (Len(a) - 1) * LimbBits + IntBitLen(a[Len(a)])

NatOdd(a) == a # << >> /\ a[1] % 2 = 1

\* a < b
NatLess(a, b) ==
  IF Len(a) # Len(b) THEN Len(a) < Len(b)
  ELSE \E i \in 1..Len(a) :
         /\ a[i] < b[i]
         /\ \A j \in (i + 1)..Len(a) : a[j] = b[j]

(***************************************************************************)
(* binary64 values and their rounding.                                     *)
(***************************************************************************)
FZero == [neg |-> FALSE, m |-> << >>, e |-> 0]

IsZero(x) == x.m = << >>

\* q or q + 1: up when the guard bit is set and the rest or q's last bit is
RoundTies(q, guard, rest) ==
  IF guard /\ (rest \/ NatOdd(q)) THEN NatAdd(q, <<1>>) ELSE q

\* h holds the value with the guard bit still in it
RoundHalf(h, sticky) == RoundTies(NatShr(h.q, 1).q, NatOdd(h.q), sticky \/ h.sticky)

\* the natural nearest to (a + sticky) / 2^s, ties to even, for s >= 1
NatRoundShr(a, s, sticky) == RoundHalf(NatShr(a, s - 1), sticky)

\* a mantissa that rounding carried to 54 bits is halved
Renorm(neg, r, e) ==
  IF NatBitLen(r) > MantBits
  THEN [neg |-> neg, m |-> NatShr(r, 1).q, e |-> e + 1]
  ELSE [neg |-> neg, m |-> r, e |-> e]

RoundNatLen(neg, a, e, sticky, n) ==
  IF n = 0 THEN FZero
  ELSE IF n <= MantBits
  THEN [neg |-> neg, m |-> NatShl(a, MantBits - n), e |-> e - (MantBits - n)]
  ELSE Renorm(neg, NatRoundShr(a, n - MantBits, sticky), e + (n - MantBits))

\* the float nearest to a * 2^e (sticky: a non-zero part lies below a)
RoundNat(neg, a, e, sticky) == RoundNatLen(neg, a, e, sticky, NatBitLen(a))

\* the limbs of r / d after the binary point (least significant first), until
\* seven limbs follow the first non-zero one
RECURSIVE FracLimbs(_, _, _, _)
FracLimbs(r, d, acc, sig) ==
  IF r = 0 \/ sig >= 7 THEN [limbs |-> acc, rem |-> r]
  ELSE LET l == (r * LimbBase) \div d
       IN  FracLimbs((r * LimbBase) % d, d, <<l>> \o acc,
                     IF sig > 0 \/ l # 0 THEN sig + 1 ELSE 0)

Abs(v) == IF v < 0 THEN -v ELSE v

Signed(neg, mag) == IF neg THEN -mag ELSE mag

\* the float nearest to ip + fr, an integer part and fraction limbs
FromParts(neg, ip, fr) ==
  RoundNat(neg, NatNorm(fr.limbs \o ip), -(LimbBits * Len(fr.limbs)), fr.rem # 0)

\* float(n) / float(d) for integers n and 0 < d < 2^21
FromRatio(n, d) ==
  FromParts(n < 0, IntToNat(Abs(n) \div d),
            FracLimbs(Abs(n) % d, d, << >>, IF Abs(n) \div d = 0 THEN 0 ELSE 1))

FromInt(n) == FromRatio(n, 1)

\* x + y for floats of the same sign
FAdd(x, y) ==
  IF IsZero(x) THEN y
  ELSE IF IsZero(y) THEN x
  ELSE LET e == IF x.e <= y.e THEN x.e ELSE y.e
       IN  RoundNat(x.neg, NatAdd(NatShl(x.m, x.e - e), NatShl(y.m, y.e - e)),
                    e, FALSE)

\* x * k for a float x and a natural k below 2^21
FMulInt(x, k) == RoundNat(x.neg, NatMulSmall(x.m, k), x.e, FALSE)

\* x <= y for non-negative floats
FLeq(x, y) ==
  IF IsZero(x) THEN TRUE
  ELSE IF IsZero(y) THEN FALSE
  ELSE IF x.e # y.e THEN x.e < y.e
  ELSE ~NatLess(y.m, x.m)

\* int(x): truncation towards zero
FTrunc(x) ==
  IF IsZero(x) THEN 0
  ELSE Signed(x.neg, IF x.e >= 0 THEN NatToInt(NatShl(x.m, x.e))
                     ELSE NatToInt(NatShr(x.m, -x.e).q))

\* the integer nearest to a * 2^e, ties to even
NearestInt(a, e) ==
  IF e >= 0 THEN NatToInt(NatShl(a, e)) ELSE NatToInt(NatRoundShr(a, -e, FALSE))

\* round(x): nearest integer, ties to even
FRound(x) == IF IsZero(x) THEN 0 ELSE Signed(x.neg, NearestInt(x.m, x.e))

Million == 1000000

\* round(x, 6): the nearest decimal with six places, read back as a float
Round6(x) ==
  IF IsZero(x) THEN x
  ELSE FromRatio(Signed(x.neg, NearestInt(NatMulSmall(x.m, Million), x.e)), Million)

(***************************************************************************)
(* Audio segments (pydub.AudioSegment as make_backing uses it).  A segment  *)
(* is its frame rate and the sequence of its frames; every operation used  *)
(* here treats the two channels of a frame alike, so a frame carries one   *)
(* 16-bit sample.                                                          *)
(***************************************************************************)
MaxSample == 32767

MinSample == -32768

FullScale == 32768

\* audioop's clipping of a sample to the 16-bit range
Fbound(v) == IF v > MaxSample THEN MaxSample ELSE IF v < MinSample THEN MinSample ELSE v

Seg(rate, data) == [frame_rate |-> rate, data |-> data]

\* AudioSegment.frame_count(ms): int(ms * (frame_rate / 1000.0))
frame_count(seg, ms) == FTrunc(FMulInt(FromRatio(seg.frame_rate, 1000), ms))

\* len(seg): round(1000 * (frames / frame_rate)) milliseconds
len_ms(seg) == FRound(FMulInt(FromRatio(Len(seg.data), seg.frame_rate), 1000))

\* int(s.duration_seconds * 1000)
duration_ms(seg) == FTrunc(FMulInt(FromRatio(Len(seg.data), seg.frame_rate), 1000))

longest_duration_ms(segs) == MaxOf({duration_ms(segs[i]) : i \in 1..Len(segs)})

\* AudioSegment.silent(duration, frame_rate): int(frame_rate * (duration / 1000.0)) frames
silent(duration, rate) ==
  Seg(rate, [i \in 1..FTrunc(FMulInt(FromRatio(duration, 1000), rate)) |-> 0])

\* seg[from:to] in milliseconds: the frames of the slice; a slice that ends
\* past the data is padded with silence when it has a frame to copy
Least(a, b) == IF a < b THEN a ELSE b

Cut(data, a, hi) == IF a >= hi THEN << >> ELSE SubSeq(data, a + 1, hi)

Pad(got, want) ==
  IF want > Len(got) /\ got # << >>
  THEN got \o [i \in 1..(want - Len(got)) |-> 0]
  ELSE got

SliceFrames(data, a, b) == Pad(Cut(data, a, Least(b, Len(data))), b - a)

SliceMs(seg, from, to, n) ==
  SliceFrames(seg.data, frame_count(seg, Least(from, n)), frame_count(seg, Least(to, n)))

Slice(seg, from, to) == SliceMs(seg, from, to, len_ms(seg))

\* seg2 put in the place of seg1's samples instead of added to them
AddFrames_replace(rest, data) ==
  [i \in 1..Len(rest) |-> IF i <= Len(data) THEN data[i] ELSE rest[i]]

\* seg1.overlay(seg2, position): seg2 is added sample by sample (audioop.add,
\* which clips) onto seg1 from `position` on and cut at the end of seg1
AddFrames(rest, data) ==
  [i \in 1..Len(rest) |-> IF i <= Len(data) THEN Fbound(rest[i] + data[i]) ELSE rest[i]]

overlay(seg1, seg2, position) ==
  Seg(seg1.frame_rate,
      Slice(seg1, 0, position)
        \o AddFrames(Slice(seg1, position, len_ms(seg1)), seg2.data))

\* audioop.max: the largest absolute sample value (0 for no frames)
MaxAmplitude(seg) ==
  IF seg.data = << >> THEN 0 ELSE MaxOf({Abs(seg.data[i]) : i \in 1..Len(seg.data)})

(***************************************************************************)
(* Gains.  A gain is a level in decibels: tenths / 10 dB, minus the dBFS    *)
(* level of the amplitude `peak` (FullScale: 0 dBFS, so nothing is taken   *)
(* off).  db_to_float gives the factor as (whole + frac / 10000) / den.    *)
(***************************************************************************)
Gain(tenths, peak) == [tenths |-> tenths, peak |-> peak]

ZeroGain == Gain(0, FullScale)

NormTenths == -10

\* FullScale * 10^(-1/20) = 29204.5107...: the amplitude of -1.0 dBFS
NormWhole == 29204

NormFrac == 5107

RECURSIVE Pow10(_)
Pow10(n) == IF n = 0 THEN 1 ELSE 10 * Pow10(n - 1)

\* 10 ** (db / 20), with FullScale / peak folded in for a gain taken relative
\* to a measured peak
db_to_float(g) ==
  IF g.tenths = NormTenths
  THEN [whole |-> NormWhole, frac |-> NormFrac, den |-> g.peak]
  ELSE IF g.tenths >= 0
  THEN [whole |-> Pow10(g.tenths \div 200), frac |-> 0, den |-> 1]
  ELSE [whole |-> 1, frac |-> 0, den |-> Pow10((-g.tenths) \div 200)]

\* audioop.mul on one sample: floor(sample * factor), clipped
MulSample(v, f) == Fbound((v * f.whole + (v * f.frac) \div 10000) \div f.den)

\* seg.apply_gain(g), also written seg + g
Scale(seg, f) == Seg(seg.frame_rate, [i \in 1..Len(seg.data) |-> MulSample(seg.data[i], f)])

\* the segment as it is, the gain not applied
apply_gain_unapplied(seg, g) == seg

apply_gain(seg, g) == Scale(seg, db_to_float(g))

\* the gain -1.0 dB itself, the measured peak not subtracted
normalize_gain_fixed(seg) ==
  IF MaxAmplitude(seg) # 0 THEN Gain(NormTenths, FullScale) ELSE ZeroGain

\* the normalisation gain of line 267
normalize_gain(seg) ==
  IF MaxAmplitude(seg) # 0 THEN Gain(NormTenths, MaxAmplitude(seg)) ELSE ZeroGain

(***************************************************************************)
(* The click sample: 20 ms of noise (random, hence the amplitude is any of *)
(* ClickAmps), at the frame rate of the mix.                               *)
(***************************************************************************)
ClickMs == 20

ClickAmps == {-16000, 16000}

make_click_sample(rate, amp) == Seg(rate, [i \in 1..((ClickMs * rate) \div 1000) |-> amp])

(***************************************************************************)
(* make_backing                                                            *)
(***************************************************************************)
\* the four separated stems only, as copy_stems lists them
required_stems_only == <<"vocals.wav", "drums.wav", "bass.wav", "other.wav">>

required == <<"vocals.wav", "drums.wav", "bass.wav", "other.wav", "mix.wav">>

NoFile == [exists |-> FALSE]

NoErr == [kind |-> "none", name |-> ""]

VARIABLES
  stems_dir,    \* file name -> NoFile or the content of the file
  with_click, auto_bpm, bpm, drum_gain, mp3,     \* the options
  pc,           \* where make_backing stands
  loaded,       \* file name -> segment, for the stems loaded so far
  frame_rate, max_len, backing,
  beats_sec, step, total, t,
  click, bi,
  overlaid,     \* the clicks overlaid so far: [t, pos]
  mixed,        \* the buffer as it was before normalisation
  gain,
  written,      \* the output files that exist
  err

vars == <<stems_dir, with_click, auto_bpm, bpm, drum_gain, mp3, pc, loaded,
          frame_rate, max_len, backing, beats_sec, step, total, t, click, bi,
          overlaid, mixed, gain, written, err>>

options == <<stems_dir, with_click, auto_bpm, bpm, drum_gain, mp3>>

NoSeg == Seg(0, << >>)

StemNames == {"vocals.wav", "drums.wav", "bass.wav", "other.wav", "mix.wav"}

Missing == {n \in StemNames : ~stems_dir[n].exists}

\* the except clause of line 285: the error is logged and the command exits 1
Fail(kind, name) ==
  /\ pc' = "failed"
  /\ err' = [kind |-> kind, name |-> name]

InitLocals ==
  /\ pc = "validate"
  /\ loaded = << >>
  /\ frame_rate = 0
  /\ max_len = 0
  /\ backing = NoSeg
  /\ beats_sec = << >>
  /\ step = FZero
  /\ total = FZero
  /\ t = FZero
  /\ click = NoSeg
  /\ bi = 0
  /\ overlaid = << >>
  /\ mixed = NoSeg
  /\ gain = ZeroGain
  /\ written = {}
  /\ err = NoErr

\* lines 214-217: the first required file that does not exist is reported
Validate ==
  /\ pc = "validate"
  /\ LET absent == {i \in 1..Len(required) : ~stems_dir[required[i]].exists}
     IN  IF absent # {}
         THEN Fail("MissingInput", required[MinOf(absent)])
         ELSE pc' = "load" /\ err' = err
  /\ UNCHANGED <<options, loaded, frame_rate, max_len, backing, beats_sec, step,
                 total, t, click, bi, overlaid, mixed, gain, written>>

load_order == <<"vocals.wav", "drums.wav", "bass.wav", "other.wav", "mix.wav">>

\* lines 219-223: the stems are loaded in turn; a file that is not there
\* raises at its load
LoadStems ==
  /\ pc = "load"
  /\ LET absent == {i \in 1..Len(load_order) : ~stems_dir[load_order[i]].exists}
         upto   == IF absent = {} THEN Len(load_order) ELSE MinOf(absent) - 1
     IN  /\ loaded' = [i \in 1..upto |->
                         Seg(stems_dir[load_order[i]].frame_rate,
                             stems_dir[load_order[i]].data)]
         /\ IF absent # {}
            THEN Fail("MissingInput", load_order[MinOf(absent)])
            ELSE pc' = "align" /\ err' = err
  /\ UNCHANGED <<options, frame_rate, max_len, backing, beats_sec, step, total, t,
                 click, bi, overlaid, mixed, gain, written>>

vocals == loaded[1]

drums == loaded[2]

bass == loaded[3]

other == loaded[4]

mix == loaded[5]

\* lines 225-227
Align ==
  /\ pc = "align"
  /\ frame_rate' = mix.frame_rate
  /\ max_len' = longest_duration_ms(<<vocals, drums, bass, other, mix>>)
  /\ backing' = silent(max_len', frame_rate')
  /\ pc' = "attenuate"
  /\ UNCHANGED <<options, loaded, beats_sec, step, total, t, click, bi, overlaid,
                 mixed, gain, written, err>>

\* lines 229-230: drums = drums + drum_gain
Attenuate ==
  /\ pc = "attenuate"
  /\ loaded' = [loaded EXCEPT ![2] = apply_gain(drums, Gain(10 * drum_gain, FullScale))]
  /\ pc' = "overlay"
  /\ UNCHANGED <<options, frame_rate, max_len, backing, beats_sec, step, total, t,
                 click, bi, overlaid, mixed, gain, written, err>>

\* the stems overlaid one after the other, in the order of q, from offset 0
RECURSIVE overlay_all(_, _)
overlay_all(base, q) ==
  IF q = << >> THEN base
  ELSE overlay_all(overlay(base, Head(q), 0), Tail(q))

overlay_order == <<1, 3, 4, 2>>

\* lines 232-235: vocals, bass, other, drums
OverlayStems ==
  /\ pc = "overlay"
  /\ backing' = overlay_all(backing, [i \in 1..Len(overlay_order) |-> loaded[overlay_order[i]]])
  /\ pc' = "beats"
  /\ UNCHANGED <<options, loaded, frame_rate, max_len, beats_sec, step, total, t,
                 click, bi, overlaid, mixed, gain, written, err>>

\* beat times in microseconds (metadata.json holds seconds with six decimals):
\* before the start, inside a short mix, and at or past its end
BeatMicros == {-1500, -500, 0, 1600, 2500, 3000, 9000}

MaxBeats == 2

\* the beat lists metadata.json may hold or the estimator may return
BeatLists == UNION {[1..n -> BeatMicros] : n \in 0..MaxBeats}

\* float(t) of a JSON number written with six decimals
BeatOf(micros) == FromRatio(micros, Million)

\* line 251: bpm and bpm > 0
FixedTempoOk == bpm # << >> /\ bpm[1] > 0

\* lines 237-254: which beat grid is used
BeatSource ==
  /\ pc = "beats"
  /\ IF ~with_click
     THEN /\ pc' = "normalize"
          /\ UNCHANGED <<beats_sec, step, total, t>>
     ELSE IF auto_bpm
     THEN /\ pc' = "click"
          /\ \E q \in IF stems_dir["metadata.json"].exists
                      THEN {stems_dir["metadata.json"].beats}
                      ELSE BeatLists :
               beats_sec' = [i \in 1..Len(q) |-> BeatOf(q[i])]
          /\ UNCHANGED <<step, total, t>>
     ELSE IF FixedTempoOk
     THEN /\ pc' = "grid"
          /\ step' = FromRatio(60, bpm[1])
          /\ total' = FromRatio(max_len, 1000)
          /\ t' = FZero
          /\ UNCHANGED beats_sec
     ELSE /\ pc' = "click"
          /\ UNCHANGED <<beats_sec, step, total, t>>
  /\ UNCHANGED <<options, loaded, frame_rate, max_len, backing, click, bi, overlaid,
                 mixed, gain, written, err>>

\* lines 255-257: one turn of the while loop
GridStep ==
  /\ pc = "grid"
  /\ IF FLeq(t, total)
     THEN /\ beats_sec' = Append(beats_sec, Round6(t))
          /\ t' = FAdd(t, step)
          /\ pc' = pc
     ELSE /\ pc' = "click"
          /\ UNCHANGED <<beats_sec, t>>
  /\ UNCHANGED <<options, loaded, frame_rate, max_len, backing, step, total, click,
                 bi, overlaid, mixed, gain, written, err>>

\* lines 259-260
ClickBegin ==
  /\ pc = "click"
  /\ IF beats_sec # << >>
     THEN /\ \E amp \in ClickAmps : click' = make_click_sample(frame_rate, amp)
          /\ bi' = 1
          /\ pc' = "click_loop"
     ELSE /\ pc' = "normalize"
          /\ UNCHANGED <<click, bi>>
  /\ UNCHANGED <<options, loaded, frame_rate, max_len, backing, beats_sec, step,
                 total, t, overlaid, mixed, gain, written, err>>

\* the position rounded to the nearest millisecond
click_pos_round(beat) == FRound(FMulInt(beat, 1000))

\* line 262: pos = int(t * 1000)
click_pos(beat) == FTrunc(FMulInt(beat, 1000))

\* the end of the mix taken as a position too
in_range_inclusive(pos, limit) == 0 <= pos /\ pos <= limit

\* line 263
in_range(pos, limit) == 0 <= pos /\ pos < limit

\* lines 261-264: one beat of the for loop
ClickStep ==
  /\ pc = "click_loop"
  /\ IF bi <= Len(beats_sec)
     THEN LET pos == click_pos(beats_sec[bi])
          IN  /\ IF in_range(pos, max_len)
                 THEN /\ backing' = overlay(backing, click, pos)
                      /\ overlaid' = Append(overlaid, [t |-> beats_sec[bi], pos |-> pos])
                 ELSE UNCHANGED <<backing, overlaid>>
              /\ bi' = bi + 1
              /\ pc' = pc
     ELSE /\ pc' = "normalize"
          /\ UNCHANGED <<backing, overlaid, bi>>
  /\ UNCHANGED <<options, loaded, frame_rate, max_len, beats_sec, step, total, t,
                 click, mixed, gain, written, err>>

\* lines 267-268
Normalize ==
  /\ pc = "normalize"
  /\ mixed' = backing
  /\ gain' = normalize_gain(backing)
  /\ backing' = apply_gain(backing, gain')
  /\ pc' = "export_wav"
  /\ UNCHANGED <<options, loaded, frame_rate, max_len, beats_sec, step, total, t,
                 click, bi, overlaid, written, err>>

\* what an export may do: write the file, or raise
ExportOutcomes == {"ok", "error"}

\* lines 270-271
ExportWav ==
  /\ pc = "export_wav"
  /\ \E outcome \in ExportOutcomes :
       /\ written' = IF outcome = "ok" THEN written \cup {"backing.wav"} ELSE written
       /\ IF outcome = "ok"
          THEN pc' = (IF mp3 THEN "export_mp3" ELSE "done") /\ err' = err
          ELSE Fail("IOFailure", "backing.wav")
  /\ UNCHANGED <<options, loaded, frame_rate, max_len, backing, beats_sec, step,
                 total, t, click, bi, overlaid, mixed, gain>>

\* lines 274-276
ExportMp3 ==
  /\ pc = "export_mp3"
  /\ \E outcome \in ExportOutcomes :
       /\ written' = IF outcome = "ok" THEN written \cup {"backing.mp3"} ELSE written
       /\ IF outcome = "ok"
          THEN pc' = "done" /\ err' = err
          ELSE Fail("IOFailure", "backing.mp3")
  /\ UNCHANGED <<options, loaded, frame_rate, max_len, backing, beats_sec, step,
                 total, t, click, bi, overlaid, mixed, gain>>

Next ==
  \/ Validate
  \/ LoadStems
  \/ Align
  \/ Attenuate
  \/ OverlayStems
  \/ BeatSource
  \/ GridStep
  \/ ClickBegin
  \/ ClickStep
  \/ Normalize
  \/ ExportWav
  \/ ExportMp3

(***************************************************************************)
(* The inputs: the files of the stems directory and the options.           *)
(***************************************************************************)
FileNames == StemNames \cup {"metadata.json"}

\* a stem file: n frames that alternate between v and its mirror
Tone(n, v) == [i \in 1..n |-> IF i % 2 = 1 THEN v ELSE Fbound(-v)]

StemFile(rate, n, v) == [exists |-> TRUE, frame_rate |-> rate, data |-> Tone(n, v)]

MetaFile(q) == [exists |-> TRUE, beats |-> q]

MkDir(rate, lens, vals, present, meta) ==
  [n \in FileNames |->
     IF n = "metadata.json" THEN meta
     ELSE IF n \in present THEN StemFile(rate, lens[n], vals[n])
     ELSE NoFile]

Scenario(dir, wc, ab, b, dg, m) ==
  [dir |-> dir, with_click |-> wc, auto_bpm |-> ab, bpm |-> b, drum_gain |-> dg, mp3 |-> m]

FrameRates == {1000, 3000}

MaxFrames == 3

DefaultGain == -120

DrumGains == {-120, -20, 0}

\* --bpm: not given, zero, negative, or a tempo
BpmVals == {<< >>, <<0>>, <<-60>>, <<120>>, <<60000>>}

SampleVals == {MinSample, 0, 10000, 22767}

DefaultVals ==
  [n \in StemNames |->
     CASE n = "vocals.wav" -> 1000
       [] n = "drums.wav" -> -3000
       [] n = "bass.wav" -> 2000
       [] n = "other.wav" -> -500
       [] OTHER -> 100]

Uniform(n) == [s \in StemNames |-> n]

DefaultDir(present) == MkDir(1000, Uniform(MaxFrames), DefaultVals, present, NoFile)

\* every combination of options, and every set of stems that may be absent
CoreScenarios ==
  {Scenario(DefaultDir(present), wc, ab, b, DefaultGain, m) :
     present \in SUBSET StemNames, wc \in BOOLEAN, ab \in BOOLEAN,
     b \in BpmVals, m \in BOOLEAN}

\* stems of every length, at both frame rates
LengthScenarios ==
  {Scenario(MkDir(rate, lens, DefaultVals, StemNames, NoFile),
            FALSE, FALSE, << >>, DefaultGain, FALSE) :
     rate \in FrameRates, lens \in [StemNames -> 0..MaxFrames]}

\* beats from metadata.json, or estimated when the file is not there
BeatScenarios ==
  {Scenario(MkDir(rate, Uniform(MaxFrames * (rate \div 1000)), DefaultVals, StemNames, meta),
            TRUE, TRUE, << >>, DefaultGain, FALSE) :
     rate \in FrameRates, meta \in {NoFile} \cup {MetaFile(q) : q \in BeatLists}}

MixFrames == 2

\* stems of every sample value, under every drum gain
MixScenarios ==
  {Scenario(MkDir(1000, Uniform(MixFrames), [vals EXCEPT !["mix.wav"] = 0], StemNames, NoFile),
            FALSE, FALSE, << >>, dg, FALSE) :
     vals \in [StemNames -> SampleVals], dg \in DrumGains}

GridFrames == {300, 1200, 2400}

GridBpms == {<<60>>, <<75>>, <<120>>, <<150>>}

\* fixed tempos over mixes of a few seconds
GridScenarios ==
  {Scenario(MkDir(1000, Uniform(n), DefaultVals, StemNames, NoFile),
            TRUE, FALSE, b, DefaultGain, FALSE) :
     n \in GridFrames, b \in GridBpms}

StartWith(sc) ==
  /\ stems_dir = sc.dir
  /\ with_click = sc.with_click
  /\ auto_bpm = sc.auto_bpm
  /\ bpm = sc.bpm
  /\ drum_gain = sc.drum_gain
  /\ mp3 = sc.mp3

Init ==
  /\ InitLocals
  /\ \/ \E sc \in CoreScenarios : StartWith(sc)
     \/ \E sc \in LengthScenarios : StartWith(sc)
     \/ \E sc \in BeatScenarios : StartWith(sc)
     \/ \E sc \in GridScenarios : StartWith(sc)

Spec == Init /\ [][Next]_vars

InitMix ==
  /\ InitLocals
  /\ \/ \E sc \in CoreScenarios : StartWith(sc)
     \/ \E sc \in MixScenarios : StartWith(sc)

SpecMix == InitMix /\ [][Next]_vars

(***************************************************************************)
(* The properties.                                                         *)
(***************************************************************************)
Finished == {"export_wav", "export_mp3", "done"}

\* C1: when any of the five required stems is absent, make_backing fails with
\* a MissingInput error that names an absent stem, before any stem is loaded
\* and before any output file is written.
C1_MissingStemFailsFirst ==
  (Missing # {} /\ pc # "validate") =>
    /\ pc = "failed"
    /\ err.kind = "MissingInput"
    /\ err.name \in Missing
    /\ loaded = << >>
    /\ written = {}

C1_Witness ==
  /\ pc = "failed"
  /\ Missing = {"bass.wav", "mix.wav"}
  /\ err = [kind |-> "MissingInput", name |-> "bass.wav"]

\* C2: a run of make_backing that ends in a failure leaves no output file.
C2_FailedRunLeavesNoOutput == pc = "failed" => written = {}

\* C3: with the click enabled and the fixed tempo selected, a bpm <= 0 makes
\* the run fail with InvalidParameter, and no output file is produced.
C3_NonPositiveBpmRejected ==
  ( /\ with_click /\ ~auto_bpm /\ bpm # << >> /\ bpm[1] <= 0
    /\ Missing = {}
    /\ pc \in {"grid", "click", "click_loop", "normalize", "failed", "done"} \cup Finished ) =>
    /\ pc = "failed"
    /\ err.kind = "InvalidParameter"
    /\ written = {}

LongestStemFrames == MaxOf({Len(stems_dir[n].data) : n \in StemNames})

\* C4: the canvas, and the mix made on it, is as long as the longest of the
\* five stems to within one frame.
C4_CanvasCoversLongestStem ==
  (pc \in {"attenuate", "overlay", "beats", "done"}) =>
    /\ Len(backing.data) >= LongestStemFrames - 1
    /\ Len(backing.data) <= LongestStemFrames + 1

StrictlyIncreasing(q) ==
  \A i \in 1..(Len(q) - 1) : FLeq(q[i], q[i + 1]) /\ q[i] # q[i + 1]

\* C5: in fixed-tempo mode the grid starts at 0, is strictly increasing, has
\* floor(T / step) + 1 entries (step = 60 / bpm, T = max_len / 1000), and so
\* has a beat at T when T is a multiple of step.
C5_GridHasEveryBeat ==
  (pc = "click" /\ with_click /\ ~auto_bpm /\ FixedTempoOk) =>
    /\ Len(beats_sec) = (max_len * bpm[1]) \div 60000 + 1
    /\ beats_sec[1] = FZero
    /\ StrictlyIncreasing(beats_sec)
    /\ ((max_len * bpm[1]) % 60000 = 0 => beats_sec[Len(beats_sec)] = total)

\* C6: every click is overlaid at a position 0 <= pos < max_len; a beat whose
\* position is outside that range changes nothing and raises nothing.
C6_ClicksInsideMix ==
  [][ (pc = "click_loop" /\ bi <= Len(beats_sec)) =>
        /\ pc' = "click_loop"
        /\ err' = NoErr
        /\ IF 0 <= click_pos(beats_sec[bi]) /\ click_pos(beats_sec[bi]) < max_len
           THEN overlaid' = Append(overlaid, [t |-> beats_sec[bi],
                                               pos |-> click_pos(beats_sec[bi])])
           ELSE overlaid' = overlaid /\ backing' = backing ]_vars

C6_Witness ==
  /\ pc = "done"
  /\ Len(beats_sec) = 2
  /\ FTrunc(FMulInt(beats_sec[1], 1000)) < 0
  /\ FTrunc(FMulInt(beats_sec[2], 1000)) >= max_len
  /\ overlaid = << >>

\* C7: a mix that is not silent gets the one gain -1.0 dB minus its peak, and
\* its peak becomes -1.0 dBFS (to the sample step); a silent mix gets gain 0
\* and is left as it is.
C7_NormalizedPeak ==
  (pc \in Finished) =>
    IF MaxAmplitude(mixed) = 0
    THEN gain = ZeroGain /\ backing = mixed
    ELSE /\ gain = Gain(NormTenths, MaxAmplitude(mixed))
         /\ Len(backing.data) = Len(mixed.data)
         /\ MaxAmplitude(backing) >= NormWhole
         /\ MaxAmplitude(backing) <= NormWhole + 1

C7_Witness ==
  /\ pc = "done"
  /\ MaxAmplitude(mixed) = 10000
  /\ MaxAmplitude(backing) = NormWhole + 1

\* the mix with the drums left out of the overlays
WithoutDrums == overlay_all(silent(max_len, frame_rate), <<vocals, bass, other>>)

\* C8: with the drums at -120 dB the mix differs from the mix without the
\* drums by at most one sample step, before normalisation.
C8_MuteEqualsOmission ==
  (pc = "beats" /\ drum_gain = -120) =>
    /\ Len(backing.data) = Len(WithoutDrums.data)
    /\ \A i \in 1..Len(backing.data) :
         Abs(backing.data[i] - WithoutDrums.data[i]) <= 1

C8_Witness ==
  /\ pc = "beats"
  /\ drum_gain = -120
  /\ stems_dir["drums.wav"].data = <<10000, -10000>>
  /\ backing.data # WithoutDrums.data

\* C9 as stated: a click is overlaid at round(t * 1000), the nearest
\* millisecond.
C9_ClickAtNearestMs ==
  \A i \in 1..Len(overlaid) :
    overlaid[i].pos = FRound(FMulInt(overlaid[i].t, 1000))

\* p is x cut at the decimal point: the whole number next to x on the side of 0
TruncatedTo(x, p) ==
  /\ p # 0 => ((p < 0) = x.neg)
  /\ FLeq(FromInt(Abs(p)), [x EXCEPT !.neg = FALSE])
  /\ ~FLeq(FromInt(Abs(p) + 1), [x EXCEPT !.neg = FALSE])

\* C9: a click is overlaid at int(t * 1000), the product cut at the decimal
\* point and not rounded, also when its fraction is 0.5 or more.
C9_ClickAtTruncatedMs ==
  \A i \in 1..Len(overlaid) :
    TruncatedTo(FMulInt(overlaid[i].t, 1000), overlaid[i].pos)

C9_Witness ==
  /\ pc = "done"
  /\ \E i \in 1..Len(overlaid) :
       overlaid[i].t = BeatOf(1600) /\ overlaid[i].pos = 1

Perms == {q \in [1..4 -> 1..4] : \A i, j \in 1..4 : q[i] = q[j] => i = j}

InOrder(q) == overlay_all(silent(max_len, frame_rate), [i \in 1..4 |-> loaded[q[i]]])

\* C10 as stated: the four stems overlaid in any order give the buffer of the
\* fixed order vocals, bass, other, drums.
C10_AnyOrder == pc = "beats" => \A q \in Perms : InOrder(q) = backing

SampleAt(seg, i) == IF i <= Len(seg.data) THEN seg.data[i] ELSE 0

RECURSIVE SumAt(_, _)
SumAt(S, i) ==
  IF S = {} THEN 0
  ELSE LET k == CHOOSE k \in S : TRUE IN SampleAt(loaded[k], i) + SumAt(S \ {k}, i)

\* no sum of stems at a frame leaves the sample range
NoClipping ==
  \A i \in 1..Len(backing.data) : \A S \in SUBSET (1..4) :
    SumAt(S, i) >= MinSample /\ SumAt(S, i) <= MaxSample

\* C10: the four stems overlaid in any order give the buffer of the fixed
\* order, as long as no sum of their samples at a frame leaves the sample range.
C10_AnyOrderUnclipped ==
  (pc = "beats" /\ NoClipping) => \A q \in Perms : InOrder(q) = backing

C10_Witness ==
  /\ pc = "beats"
  /\ NoClipping
  /\ Cardinality({k \in 1..4 : MaxAmplitude(loaded[k]) # 0}) >= 3
  /\ \E i \in 1..Len(backing.data) : \E S \in SUBSET (1..4) : SumAt(S, i) = MaxSample
====
